---- MODULE Spec2Model ----
(***************************************************************************)
(* Document storage API: the documents router (create / list / get /       *)
(* download / delete), the metadata table it keeps through the ORM and     *)
(* the repository directory tree it keeps on disk.                         *)
(*                                                                         *)
(* Strings that the program slices, joins or parses (ids, filenames,       *)
(* paths, URLs) are sequences of one-character strings.  Every request is  *)
(* a process that walks through the statements of its handler; each        *)
(* filesystem call and each database call is one step, and each call that  *)
(* the operating system or the database may refuse has a failing outcome.  *)
(***************************************************************************)
EXTENDS Naturals, Sequences, FiniteSets

\* ------------------------------------------------------------------ bounds

\* Number of request slots (requests that can be in flight together).
NumProcs == 2
\* Largest skip / limit a List request is given.
MaxPage == 1
\* Number of documents created in one run.
MaxDocs == 2

Procs == 1..NumProcs

\* ------------------------------------------------------- program constants

\* settings.REPOSITORY_PATH
Base == <<"R">>
\* doc_id[:2]
ShardLen == 2
\* the default extension, '.txt'
DefaultExt == <<".", "t", "x", "t">>

\* ------------------------------------------------------------------ inputs

\* Values uuid.uuid4() can return: two ids in one shard, one in another.
Ids == { <<"a", "b", "1">>, <<"a", "b", "2">>, <<"c", "d", "1">> }
\* The uploads clients send: the filenames "r.p", "r", ".h" and "x.y/r", each
\* with its bytes and display name.
Uploads ==
  { [filename |-> <<"r", ".", "p">>, content |-> <<1, 2>>, name |-> "Test"],
    [filename |-> <<"r">>, content |-> <<3>>, name |-> "Test"],
    [filename |-> <<".", "h">>, content |-> <<1, 2>>, name |-> "Test"],
    [filename |-> <<"x", ".", "y", "/", "r">>, content |-> <<3>>, name |-> "Test"] }
\* The documents DocumentHandler.download_and_save is sent for: the URLs
\* "h/f.p", "h.c/f" and "h/f", each with the bytes its server returns.
Downloads ==
  { [url |-> <<"h", "/", "f", ".", "p">>, content |-> <<1, 2>>],
    [url |-> <<"h", ".", "c", "/", "f">>, content |-> <<3>>],
    [url |-> <<"h", "/", "f">>, content |-> <<1, 2>>] }
\* The status query parameter of List: <<>> is an absent parameter (None).
Filters == { <<>>, <<"pending">>, <<"processed">>, <<"error">>, <<"">>, <<"bogus">> }

\* --------------------------------------------------------- string helpers

\* str.rfind, 1-based; 0 when the character does not occur
RFind(s, c) ==
  LET hits == { i \in 1..Len(s) : s[i] = c }
  IN  IF hits = {} THEN 0 ELSE CHOOSE i \in hits : \A j \in hits : j <= i

\* s[:n]
Take(s, n) == SubSeq(s, 1, IF n < Len(s) THEN n ELSE Len(s))

\* PurePath.name: the final component of a path string
PathName(s) == SubSeq(s, RFind(s, "/") + 1, Len(s))

\* PurePath.suffix: from the last dot of the name, unless that dot is the
\* first or the last character of the name
Suffix(s) ==
  LET name == PathName(s)
      i    == RFind(name, ".")
  IN  IF 1 < i /\ i < Len(name) THEN SubSeq(name, i, Len(name)) ELSE <<>>

\* PurePath.parent of a path string
Parent(s) == SubSeq(s, 1, RFind(s, "/") - 1)

\* PurePath.__truediv__
Join(a, b) == a \o <<"/">> \o b

\* sub_dir = Path(settings.REPOSITORY_PATH) / doc_id[:2]
SubDirOf(id) == Join(Base, Take(id, ShardLen))

\* an extension taken without the '.txt' default
ExtOfNoDefault(filename) == Suffix(filename)

\* ext = Path(original_filename).suffix or '.txt'
ExtOf(filename) == IF Suffix(filename) = <<>> THEN DefaultExt ELSE Suffix(filename)

\* local_path = sub_dir / f"{doc_id}{ext}"
LocalPathOf(id, filename) == Join(SubDirOf(id), id \o ExtOf(filename))

\* os.path.splitext(url)[1]: from the last dot, when that dot comes after the
\* last separator and after a character of the name that is not a dot
SplitExt(s) ==
  LET sep == RFind(s, "/")
      dot == RFind(s, ".")
  IN  IF dot > sep /\ (\E k \in (sep + 1)..(dot - 1) : s[k] # ".")
      THEN SubSeq(s, dot, Len(s)) ELSE <<>>

\* if not ext.startswith('.'): ext = '.' + ext
Dotted(ext) == IF ext[1] = "." THEN ext ELSE <<".">> \o ext

\* ext = os.path.splitext(url)[1] or '.txt', with the leading dot enforced
HandlerExtOf(url) == Dotted(IF SplitExt(url) = <<>> THEN DefaultExt ELSE SplitExt(url))

\* sub_dir = self.base_path / doc_id[:2]
HandlerSubDirOf(id) == Join(Base, Take(id, ShardLen))

\* local_path = sub_dir / f"{doc_id}{ext}"
HandlerLocalPathOf(id, url) == Join(HandlerSubDirOf(id), id \o HandlerExtOf(url))

\* ------------------------------------------------------------------- state

VARIABLES
  rows,   \* the documents table: the rows in rowid (insertion) order
  files,  \* the regular files on disk: path string -> bytes
  dirs,   \* the directories on disk: set of path strings
  used,   \* the ids uuid4 has handed out
  pc,     \* per request slot: the statement the handler is at
  loc,    \* per request slot: the handler's parameters and locals
  resp    \* per request slot: the response the handler produced

vars == <<rows, files, dirs, used, pc, loc, resp>>

\* models.Document, without the timestamps
Row(id, name, filename, path) ==
  [id |-> id, name |-> name, original_filename |-> filename,
   local_path |-> path, status |-> "pending"]

\* db.query(models.Document).filter(models.Document.id == document_id).first()
HasRow(t, id) == \E i \in 1..Len(t) : t[i].id = id
FirstRow(t, id) ==
  t[CHOOSE i \in 1..Len(t) : t[i].id = id /\ \A j \in 1..(i - 1) : t[j].id # id]

\* a row deletion that deletes nothing
WithoutRowKept(t, id) == t

\* the table without the rows of this primary key
RECURSIVE WithoutRow(_, _)
WithoutRow(t, id) ==
  IF t = <<>> THEN <<>>
  ELSE IF Head(t).id = id THEN WithoutRow(Tail(t), id)
  ELSE <<Head(t)>> \o WithoutRow(Tail(t), id)

\* Path.exists() of a stored file
Exists(path) == path \in DOMAIN files

\* the file system after writing bytes at path / after unlinking path
WithFile(fs, path, data) ==
  [x \in (DOMAIN fs) \cup {path} |-> IF x = path THEN data ELSE fs[x]]
WithoutFile(fs, path) == [x \in (DOMAIN fs) \ {path} |-> fs[x]]

\* Path.iterdir(): the entries of a directory
Entries(d) == { f \in DOMAIN files : Parent(f) = d } \cup { x \in dirs : Parent(x) = d }

\* the locals of a handler that has not started
NoLoc ==
  [op |-> "none", id |-> <<>>, name |-> "", filename |-> <<>>, content |-> <<>>,
   path |-> <<>>, found |-> FALSE, exc |-> "", filter |-> <<>>, skip |-> 0, limit |-> 0]

\* no response yet
NoResp ==
  [status |-> 0, detail |-> "", cause |-> "", docs |-> <<>>, data |-> <<>>,
   filename |-> <<>>]

\* raise HTTPException(status_code=..., detail=f"...: {str(e)}")
HttpError(code, detail, cause) ==
  [NoResp EXCEPT !.status = code, !.detail = detail, !.cause = cause]

Init ==
  /\ rows = <<>>
  /\ files = <<>>
  /\ dirs \in { {}, {Base} }
  /\ used = {}
  /\ pc = [p \in Procs |-> "idle"]
  /\ loc = [p \in Procs |-> NoLoc]
  /\ resp = [p \in Procs |-> NoResp]

\* a handler moves to its next statement
Goto(p, label) == pc' = [pc EXCEPT ![p] = label]

\* a handler raises: control moves to its except clause with the exception
Raise(p, label, e) ==
  /\ pc' = [pc EXCEPT ![p] = label]
  /\ loc' = [loc EXCEPT ![p].exc = e]

\* a handler returns or lets an HTTPException out
Reply(p, r) ==
  /\ pc' = [pc EXCEPT ![p] = "done"]
  /\ resp' = [resp EXCEPT ![p] = r]

\* ------------------------------------------------------------------ create

\* create_document is called: doc_id = str(uuid.uuid4())
CreateStart(p) ==
  /\ pc[p] = "idle"
  /\ Cardinality(used) < MaxDocs
  /\ \E id \in Ids \ used, u \in Uploads :
       /\ used' = used \cup {id}
       /\ loc' = [loc EXCEPT ![p] = [NoLoc EXCEPT !.op = "create", !.id = id,
                                     !.name = u.name, !.filename = u.filename,
                                     !.content = u.content]]
  /\ Goto(p, "c_mkdir")
  /\ UNCHANGED <<rows, files, dirs, resp>>

\* sub_dir.mkdir(parents=True, exist_ok=True), then ext and local_path
CreateMkdir(p) ==
  /\ pc[p] = "c_mkdir"
  /\ \/ /\ dirs' = dirs \cup {SubDirOf(loc[p].id), Parent(SubDirOf(loc[p].id))}
        /\ loc' = [loc EXCEPT ![p].path = LocalPathOf(loc[p].id, loc[p].filename)]
        /\ Goto(p, "c_open")
     \/ /\ Raise(p, "c_except", "OSError: mkdir")
        /\ UNCHANGED dirs
  /\ UNCHANGED <<rows, files, used, resp>>

\* local_path.open("wb")
CreateOpen(p) ==
  /\ pc[p] = "c_open"
  /\ IF Parent(loc[p].path) \notin dirs
     THEN /\ Raise(p, "c_except", "FileNotFoundError: open")
          /\ UNCHANGED files
     ELSE \/ /\ files' = WithFile(files, loc[p].path, <<>>)
             /\ Goto(p, "c_copy")
             /\ UNCHANGED loc
          \/ /\ Raise(p, "c_except", "OSError: open")
             /\ UNCHANGED files
  /\ UNCHANGED <<rows, dirs, used, resp>>

\* what is on disk when shutil.copyfileobj stops after n bytes
Written(fs, path, data, n) ==
  IF path \in DOMAIN fs THEN WithFile(fs, path, SubSeq(data, 1, n)) ELSE fs

\* shutil.copyfileobj(file.file, buffer) and the close of the with block
CreateCopy(p) ==
  /\ pc[p] = "c_copy"
  /\ \/ /\ files' = Written(files, loc[p].path, loc[p].content, Len(loc[p].content))
        /\ Goto(p, "c_commit")
        /\ UNCHANGED loc
     \/ \E n \in 0..(Len(loc[p].content) - 1) :
          /\ files' = Written(files, loc[p].path, loc[p].content, n)
          /\ Raise(p, "c_except", "OSError: write")
  /\ UNCHANGED <<rows, dirs, used, resp>>

\* a create that records the stored file's name as the original filename
InsertedDiskName(t, l) == Append(t, Row(l.id, l.name, PathName(l.path), l.path))

\* db.add(db_document); db.commit()
Inserted(t, l) == Append(t, Row(l.id, l.name, l.filename, l.path))

CreateCommit(p) ==
  /\ pc[p] = "c_commit"
  /\ \/ /\ rows' = Inserted(rows, loc[p])
        /\ Goto(p, "c_refresh")
        /\ UNCHANGED loc
     \/ /\ Raise(p, "c_except", "SQLAlchemyError: commit")
        /\ UNCHANGED rows
  /\ UNCHANGED <<files, dirs, used, resp>>

\* db.refresh(db_document); return db_document
CreateRefresh(p) ==
  /\ pc[p] = "c_refresh"
  /\ IF ~HasRow(rows, loc[p].id)
     THEN /\ Raise(p, "c_except", "InvalidRequestError: refresh")
          /\ UNCHANGED resp
     ELSE \/ /\ Reply(p, [NoResp EXCEPT !.status = 201,
                                        !.docs = <<FirstRow(rows, loc[p].id)>>])
             /\ UNCHANGED loc
          \/ /\ Raise(p, "c_except", "SQLAlchemyError: refresh")
             /\ UNCHANGED resp
  /\ UNCHANGED <<rows, files, dirs, used>>

\* the response of the except clause
CreateFault(l) == HttpError(500, "Error procesando documento", l.exc)

\* a cleanup that only removes a file that was written to its end
NeedsCleanupIfComplete(l) ==
  l.path # <<>> /\ Exists(l.path) /\ files[l.path] = l.content

\* if 'local_path' in locals() and Path(local_path).exists():
NeedsCleanup(l) == l.path # <<>> /\ Exists(l.path)

\* except Exception as e:
CreateExcept(p) ==
  /\ pc[p] = "c_except"
  /\ IF NeedsCleanup(loc[p])
     THEN Goto(p, "c_cleanup") /\ UNCHANGED resp
     ELSE Reply(p, CreateFault(loc[p]))
  /\ UNCHANGED <<rows, files, dirs, used, loc>>

\* Path(local_path).unlink(), then raise HTTPException(500)
CreateCleanup(p) ==
  /\ pc[p] = "c_cleanup"
  /\ IF Exists(loc[p].path)
     THEN /\ files' = WithoutFile(files, loc[p].path)
          /\ Reply(p, CreateFault(loc[p]))
     ELSE /\ Reply(p, HttpError(500, "Internal Server Error", "FileNotFoundError: unlink"))
          /\ UNCHANGED files
  /\ UNCHANGED <<rows, dirs, used, loc>>

Create(p) ==
  \/ CreateStart(p) \/ CreateMkdir(p) \/ CreateOpen(p) \/ CreateCopy(p)
  \/ CreateCommit(p) \/ CreateRefresh(p) \/ CreateExcept(p) \/ CreateCleanup(p)

\* ------------------------------------------- DocumentHandler.download_and_save

\* DocumentHandler(base_path) is built and download_and_save(url, name) called:
\* self.base_path.mkdir(parents=True, exist_ok=True); doc_id = str(uuid.uuid4())
FetchStart(p) ==
  /\ pc[p] = "idle"
  /\ Cardinality(used) < MaxDocs
  /\ \E id \in Ids \ used, d \in Downloads :
       /\ used' = used \cup {id}
       /\ loc' = [loc EXCEPT ![p] = [NoLoc EXCEPT !.op = "fetch", !.id = id,
                                     !.filename = d.url, !.content = d.content]]
  /\ dirs' = dirs \cup {Base}
  /\ Goto(p, "h_mkdir")
  /\ UNCHANGED <<rows, files, resp>>

\* sub_dir.mkdir(exist_ok=True), then ext and local_path; outside the try
FetchMkdir(p) ==
  /\ pc[p] = "h_mkdir"
  /\ IF Parent(HandlerSubDirOf(loc[p].id)) \notin dirs
     THEN /\ Reply(p, HttpError(500, "Internal Server Error", "FileNotFoundError: mkdir"))
          /\ UNCHANGED <<dirs, loc>>
     ELSE \/ /\ dirs' = dirs \cup {HandlerSubDirOf(loc[p].id)}
             /\ loc' = [loc EXCEPT ![p].path = HandlerLocalPathOf(loc[p].id, loc[p].filename)]
             /\ Goto(p, "h_get")
             /\ UNCHANGED resp
          \/ /\ Reply(p, HttpError(500, "Internal Server Error", "OSError: mkdir"))
             /\ UNCHANGED <<dirs, loc>>
  /\ UNCHANGED <<rows, files, used>>

\* session.get(url); if response.status != 200: raise; content = await response.read()
FetchGet(p) ==
  /\ pc[p] = "h_get"
  /\ \/ Goto(p, "h_open") /\ UNCHANGED loc
     \/ Raise(p, "h_except", "HTTPException: 400")
     \/ Raise(p, "h_except", "ClientError: get")
  /\ UNCHANGED <<rows, files, dirs, used, resp>>

\* open(local_path, 'wb')
FetchOpen(p) ==
  /\ pc[p] = "h_open"
  /\ IF Parent(loc[p].path) \notin dirs
     THEN /\ Raise(p, "h_except", "FileNotFoundError: open")
          /\ UNCHANGED files
     ELSE \/ /\ files' = WithFile(files, loc[p].path, <<>>)
             /\ Goto(p, "h_write")
             /\ UNCHANGED loc
          \/ /\ Raise(p, "h_except", "OSError: open")
             /\ UNCHANGED files
  /\ UNCHANGED <<rows, dirs, used, resp>>

\* f.write(content); return doc_id, str(local_path)
FetchWrite(p) ==
  /\ pc[p] = "h_write"
  /\ \/ /\ files' = Written(files, loc[p].path, loc[p].content, Len(loc[p].content))
        /\ Reply(p, [NoResp EXCEPT !.status = 200, !.filename = loc[p].path])
        /\ UNCHANGED loc
     \/ \E n \in 0..(Len(loc[p].content) - 1) :
          /\ files' = Written(files, loc[p].path, loc[p].content, n)
          /\ Raise(p, "h_except", "OSError: write")
          /\ UNCHANGED resp
  /\ UNCHANGED <<rows, dirs, used>>

\* except Exception as e: if local_path.exists():
FetchExcept(p) ==
  /\ pc[p] = "h_except"
  /\ IF Exists(loc[p].path)
     THEN Goto(p, "h_cleanup") /\ UNCHANGED resp
     ELSE Reply(p, HttpError(500, "Error procesando documento", loc[p].exc))
  /\ UNCHANGED <<rows, files, dirs, used, loc>>

\* local_path.unlink(), then raise HTTPException(500)
FetchCleanup(p) ==
  /\ pc[p] = "h_cleanup"
  /\ IF Exists(loc[p].path)
     THEN /\ files' = WithoutFile(files, loc[p].path)
          /\ Reply(p, HttpError(500, "Error procesando documento", loc[p].exc))
     ELSE /\ Reply(p, HttpError(500, "Internal Server Error", "FileNotFoundError: unlink"))
          /\ UNCHANGED files
  /\ UNCHANGED <<rows, dirs, used, loc>>

Fetch(p) ==
  \/ FetchStart(p) \/ FetchMkdir(p) \/ FetchGet(p) \/ FetchOpen(p)
  \/ FetchWrite(p) \/ FetchExcept(p) \/ FetchCleanup(p)

\* --------------------------------------------------------------- get, list

\* raise HTTPException(status_code=404, detail="Documento no encontrado")
NotFound == HttpError(404, "Documento no encontrado", "")

\* read_document
GetReply(t, id) ==
  IF HasRow(t, id) THEN [NoResp EXCEPT !.status = 200, !.docs = <<FirstRow(t, id)>>]
  ELSE NotFound

Get(p) ==
  /\ pc[p] = "idle"
  /\ \E id \in Ids :
       /\ loc' = [loc EXCEPT ![p] = [NoLoc EXCEPT !.op = "get", !.id = id]]
       /\ Reply(p, GetReply(rows, id))
  /\ UNCHANGED <<rows, files, dirs, used>>

\* `if status:` -- None and the empty string are both false
Truthy(f) == f # <<>> /\ f[1] # ""

\* query.filter(models.Document.status == status)
Filtered(t, f) ==
  IF Truthy(f) THEN SelectSeq(t, LAMBDA r : r.status = f[1]) ELSE t

\* query.offset(skip).limit(limit).all()
Page(t, f, skip, limit) ==
  LET q    == Filtered(t, f)
      last == IF skip + limit < Len(q) THEN skip + limit ELSE Len(q)
  IN  SubSeq(q, skip + 1, last)

\* read_documents
List(p) ==
  /\ pc[p] = "idle"
  /\ \E f \in Filters, skip \in 0..MaxPage, limit \in 0..MaxPage :
       /\ loc' = [loc EXCEPT ![p] = [NoLoc EXCEPT !.op = "list", !.filter = f,
                                     !.skip = skip, !.limit = limit]]
       /\ Reply(p, [NoResp EXCEPT !.status = 200, !.docs = Page(rows, f, skip, limit)])
  /\ UNCHANGED <<rows, files, dirs, used>>

\* ---------------------------------------------------------------- download

\* a missing file reported with the text of a missing row
BlobMissingAsNotFound == HttpError(404, "Documento no encontrado", "")

\* raise HTTPException(status_code=404, detail="Archivo no encontrado en el sistema")
BlobMissing == HttpError(404, "Archivo no encontrado en el sistema", "")

\* download_document: the row lookup
DownloadLookup(p) ==
  /\ pc[p] = "idle"
  /\ \E id \in Ids :
       IF HasRow(rows, id)
       THEN /\ loc' = [loc EXCEPT ![p] =
                         [NoLoc EXCEPT !.op = "download", !.id = id,
                                       !.path = FirstRow(rows, id).local_path,
                                       !.filename = FirstRow(rows, id).original_filename]]
            /\ Goto(p, "g_exists")
            /\ UNCHANGED resp
       ELSE /\ loc' = [loc EXCEPT ![p] = [NoLoc EXCEPT !.op = "download", !.id = id]]
            /\ Reply(p, NotFound)
  /\ UNCHANGED <<rows, files, dirs, used>>

\* if not file_path.exists(): raise 404
DownloadExists(p) ==
  /\ pc[p] = "g_exists"
  /\ IF Exists(loc[p].path)
     THEN Goto(p, "g_send") /\ UNCHANGED resp
     ELSE Reply(p, BlobMissing)
  /\ UNCHANGED <<rows, files, dirs, used, loc>>

\* FileResponse(file_path, filename=document.original_filename, ...)
FileReply(fs, l) ==
  [NoResp EXCEPT !.status = 200, !.data = fs[l.path], !.filename = l.filename]

\* the FileResponse is sent: the file is opened and streamed
DownloadSend(p) ==
  /\ pc[p] = "g_send"
  /\ IF Exists(loc[p].path)
     THEN Reply(p, FileReply(files, loc[p]))
     ELSE Reply(p, HttpError(500, "Internal Server Error", "RuntimeError: file does not exist"))
  /\ UNCHANGED <<rows, files, dirs, used, loc>>

Download(p) == DownloadLookup(p) \/ DownloadExists(p) \/ DownloadSend(p)

\* ------------------------------------------------------------------ delete

\* delete_document: the row lookup
DeleteLookup(p) ==
  /\ pc[p] = "idle"
  /\ \E id \in Ids :
       IF HasRow(rows, id)
       THEN /\ loc' = [loc EXCEPT ![p] =
                         [NoLoc EXCEPT !.op = "delete", !.id = id,
                                       !.path = FirstRow(rows, id).local_path,
                                       !.name = FirstRow(rows, id).name]]
            /\ Goto(p, "d_exists")
            /\ UNCHANGED resp
       ELSE /\ loc' = [loc EXCEPT ![p] = [NoLoc EXCEPT !.op = "delete", !.id = id]]
            /\ Reply(p, NotFound)
  /\ UNCHANGED <<rows, files, dirs, used>>

\* a delete that unlinks without looking
AfterExistsUnchecked(found) == "d_unlink"

\* where delete_document goes after `if file_path.exists():`
AfterExists(found) == IF found THEN "d_unlink" ELSE "d_commit"

DeleteExists(p) ==
  /\ pc[p] = "d_exists"
  /\ Goto(p, AfterExists(Exists(loc[p].path)))
  /\ loc' = [loc EXCEPT ![p].found = Exists(loc[p].path)]
  /\ UNCHANGED <<rows, files, dirs, used, resp>>

\* file_path.unlink()
DeleteUnlink(p) ==
  /\ pc[p] = "d_unlink"
  /\ IF ~Exists(loc[p].path)
     THEN /\ Raise(p, "d_except", "FileNotFoundError: unlink")
          /\ UNCHANGED files
     ELSE \/ /\ files' = WithoutFile(files, loc[p].path)
             /\ Goto(p, "d_iterdir")
             /\ UNCHANGED loc
          \/ /\ Raise(p, "d_except", "OSError: unlink")
             /\ UNCHANGED files
  /\ UNCHANGED <<rows, dirs, used, resp>>

\* a delete that never prunes the directory
AfterIterdirKept(entries) == "d_commit"

\* where delete_document goes after `if not any(file_path.parent.iterdir()):`
AfterIterdir(entries) == IF entries = {} THEN "d_rmdir" ELSE "d_commit"

DeleteIterdir(p) ==
  /\ pc[p] = "d_iterdir"
  /\ IF Parent(loc[p].path) \notin dirs
     THEN Raise(p, "d_except", "FileNotFoundError: iterdir")
     ELSE /\ Goto(p, AfterIterdir(Entries(Parent(loc[p].path))))
          /\ UNCHANGED loc
  /\ UNCHANGED <<rows, files, dirs, used, resp>>

\* file_path.parent.rmdir()
DeleteRmdir(p) ==
  /\ pc[p] = "d_rmdir"
  /\ IF Parent(loc[p].path) \notin dirs
     THEN /\ Raise(p, "d_except", "FileNotFoundError: rmdir")
          /\ UNCHANGED dirs
     ELSE IF Entries(Parent(loc[p].path)) # {}
     THEN /\ Raise(p, "d_except", "OSError: directory not empty")
          /\ UNCHANGED dirs
     ELSE \/ /\ dirs' = dirs \ {Parent(loc[p].path)}
             /\ Goto(p, "d_commit")
             /\ UNCHANGED loc
          \/ /\ Raise(p, "d_except", "OSError: rmdir")
             /\ UNCHANGED dirs
  /\ UNCHANGED <<rows, files, used, resp>>

\* the success response of delete_document
Deleted(l) ==
  [NoResp EXCEPT !.status = 200, !.detail = "eliminado correctamente"]

\* a failed commit that leaves the DELETE applied
RolledBackNot(t, id) == WithoutRow(t, id)

\* the table after a commit that raised: the session is closed without a
\* commit, which rolls the pending DELETE back
RolledBack(t, id) == t

\* db.delete(document); db.commit(); return {...}
DeleteCommit(p) ==
  /\ pc[p] = "d_commit"
  /\ \/ /\ rows' = WithoutRow(rows, loc[p].id)
        /\ Reply(p, Deleted(loc[p]))
        /\ UNCHANGED loc
     \/ /\ rows' = RolledBack(rows, loc[p].id)
        /\ Raise(p, "d_except", "SQLAlchemyError: commit")
        /\ UNCHANGED resp
  /\ UNCHANGED <<files, dirs, used>>

\* except Exception: raise HTTPException(500)
DeleteFault(l) == HttpError(500, "Error al eliminar documento", l.exc)

DeleteExcept(p) ==
  /\ pc[p] = "d_except"
  /\ Reply(p, DeleteFault(loc[p]))
  /\ UNCHANGED <<rows, files, dirs, used, loc>>

Delete(p) ==
  \/ DeleteLookup(p) \/ DeleteExists(p) \/ DeleteUnlink(p) \/ DeleteIterdir(p)
  \/ DeleteRmdir(p) \/ DeleteCommit(p) \/ DeleteExcept(p)

\* ------------------------------------------------------------ requests

\* the response has been sent and the request's session closed
Finish(p) ==
  /\ pc[p] = "done"
  /\ pc' = [pc EXCEPT ![p] = "idle"]
  /\ loc' = [loc EXCEPT ![p] = NoLoc]
  /\ resp' = [resp EXCEPT ![p] = NoResp]
  /\ UNCHANGED <<rows, files, dirs, used>>

\* requests, and calls of the DocumentHandler, served one at a time, each to
\* its response before the next starts
Next ==
  \/ Create(1) \/ Fetch(1) \/ Get(1) \/ List(1) \/ Download(1) \/ Delete(1)
  \/ Finish(1)

Spec == Init /\ [][Next]_vars

\* requests that change or read the disk served concurrently, their statements
\* interleaved
NextConc == \E p \in Procs : Create(p) \/ Download(p) \/ Delete(p) \/ Finish(p)

SpecConc == Init /\ [][NextConc]_vars

\* ================================================================ claims

\* the one request slot of Spec is at its response, for this operation
Done(op) == pc[1] = "done" /\ loc[1].op = op

\* C1: a Create that returned success has left a row for its id, carrying the
\* filename the client supplied, and a file at the row's path holding exactly
\* the uploaded bytes, so that a Get of the id succeeds; and a Download that
\* finds the row and the file returns that file's bytes with the row's
\* original_filename, whatever extension the storage path got.
C1_RoundTrip ==
  /\ Done("create") /\ resp[1].status = 201 =>
       /\ GetReply(rows, loc[1].id).status = 200
       /\ GetReply(rows, loc[1].id).docs = resp[1].docs
       /\ FirstRow(rows, loc[1].id).original_filename = loc[1].filename
       /\ FirstRow(rows, loc[1].id).local_path \in DOMAIN files
       /\ files[FirstRow(rows, loc[1].id).local_path] = loc[1].content
  /\ Done("download") /\ HasRow(rows, loc[1].id)
       /\ FirstRow(rows, loc[1].id).local_path \in DOMAIN files =>
       /\ resp[1].status = 200
       /\ resp[1].data = files[FirstRow(rows, loc[1].id).local_path]
       /\ resp[1].filename = FirstRow(rows, loc[1].id).original_filename

\* C1 witness: the upload "r" with bytes <<3>>, stored under ".txt", comes back
\* from a Download as "r" with the same bytes
C1_Witness ==
  /\ Done("download") /\ resp[1].status = 200
  /\ resp[1].filename = <<"r">> /\ resp[1].data = <<3>>
  /\ Suffix(loc[1].path) = DefaultExt

\* a request for this id enters its handler in this step
Enters(op, id) == pc[1] = "idle" /\ pc'[1] # "idle" /\ loc'[1].op = op /\ loc'[1].id = id

\* C2: a Get, Download or Delete of an id that has no row answers 404
\* "Documento no encontrado" at once and changes neither the table nor the
\* disk; and a Delete that answers success leaves no row for its id, so the
\* same Delete issued again is such a request.
C2_NotFound ==
  [][ /\ \A id \in Ids, op \in {"get", "download", "delete"} :
           Enters(op, id) /\ ~HasRow(rows, id) =>
             /\ pc'[1] = "done"
             /\ resp'[1].status = 404
             /\ resp'[1].detail = "Documento no encontrado"
             /\ rows' = rows /\ files' = files /\ dirs' = dirs
      /\ pc'[1] = "done" /\ pc[1] # "done" /\ loc'[1].op = "delete"
           /\ resp'[1].status = 200 => ~HasRow(rows', loc'[1].id)
    ]_vars

\* C2 witness: a Delete answered NotFound for an id that uuid4 has handed
\* out and that has no row, with nothing of it left on disk
C2_Witness ==
  /\ Done("delete") /\ resp[1].status = 404
  /\ loc[1].id \in used /\ ~HasRow(rows, loc[1].id)
  /\ rows = <<>> /\ DOMAIN files = {} /\ dirs = {Base}

\* the exceptions of the two statements that write the blob
BlobWriteFaults == {"OSError: open", "FileNotFoundError: open", "OSError: write"}

\* C3: when Create (or the handler's download_and_save) answers with the fault
\* of a failed blob write, there is no row for the attempt's id and no file,
\* whole or partial, at the allocated path.
C3_WriteFailure ==
  (Done("create") \/ Done("fetch")) /\ resp[1].cause \in BlobWriteFaults =>
    /\ resp[1].status = 500
    /\ ~HasRow(rows, loc[1].id)
    /\ loc[1].path # <<>>
    /\ loc[1].path \notin DOMAIN files
    /\ \A f \in DOMAIN files : PathName(f) # PathName(loc[1].path)

\* C3 witness: a Create answered 500 after copyfileobj failed part way
C3_Witness ==
  Done("create") /\ resp[1].status = 500 /\ resp[1].cause = "OSError: write"

\* C4 (as claimed): Create answers success with the row and the blob both
\* present, or a fault with neither present.
C4_AllOrNothing ==
  Done("create") =>
    IF resp[1].status = 201
    THEN HasRow(rows, loc[1].id) /\ loc[1].path \in DOMAIN files
    ELSE ~HasRow(rows, loc[1].id) /\ loc[1].path \notin DOMAIN files

\* the statements of delete_document that remove the blob
BlobPhase == {"d_exists", "d_unlink", "d_iterdir", "d_rmdir"}

\* C5: while Delete is removing the blob the row is still in the table; a
\* Delete that answers with a fault has left the row (so a file of the
\* document never outlives its row); and when the commit of the row deletion
\* fails after the blob was removed, the answer is a 500, the row is there and
\* the blob stays removed.
C5_BlobBeforeRow ==
  /\ pc[1] \in BlobPhase \cup {"d_commit", "d_except"} => HasRow(rows, loc[1].id)
  /\ Done("delete") /\ loc[1].path # <<>> =>
       /\ loc[1].path \in DOMAIN files => HasRow(rows, loc[1].id)
       /\ resp[1].status # 200 => resp[1].status = 500 /\ HasRow(rows, loc[1].id)
       /\ loc[1].exc = "SQLAlchemyError: commit" =>
            /\ resp[1].status = 500
            /\ HasRow(rows, loc[1].id)
            /\ loc[1].path \notin DOMAIN files

\* C5 witness: a Delete whose commit failed after it had unlinked the blob
C5_Witness ==
  /\ Done("delete") /\ loc[1].found /\ resp[1].status = 500
  /\ resp[1].cause = "SQLAlchemyError: commit"
  /\ HasRow(rows, loc[1].id) /\ loc[1].path \notin DOMAIN files

\* C6: a Download of an id without a row answers 404 "Documento no
\* encontrado"; a Download of a row whose file is absent answers 404 with the
\* different text "Archivo no encontrado en el sistema", carries no content and
\* is no server fault.
C6_BlobMissing ==
  Done("download") =>
    /\ ~HasRow(rows, loc[1].id) =>
         resp[1].status = 404 /\ resp[1].detail = "Documento no encontrado"
    /\ HasRow(rows, loc[1].id)
         /\ FirstRow(rows, loc[1].id).local_path \notin DOMAIN files =>
         /\ resp[1].status = 404
         /\ resp[1].detail = "Archivo no encontrado en el sistema"
         /\ resp[1].detail # "Documento no encontrado"
         /\ resp[1].data = <<>> /\ resp[1].filename = <<>>

\* C6 witness: a Download answered for a row whose file is not on disk
C6_Witness ==
  /\ Done("download") /\ HasRow(rows, loc[1].id)
  /\ FirstRow(rows, loc[1].id).local_path \notin DOMAIN files
  /\ resp[1].status = 404

\* C7: a Delete that found the row and found no file at its path does not
\* fail for that: it answers success with the row removed, unless the
\* database refused the commit of the row deletion itself.
C7_DeleteDanglingRow ==
  Done("delete") /\ loc[1].path # <<>> /\ ~loc[1].found =>
    \/ resp[1].status = 200 /\ ~HasRow(rows, loc[1].id)
    \/ resp[1].status = 500 /\ resp[1].cause = "SQLAlchemyError: commit"
         /\ HasRow(rows, loc[1].id)

\* C7 witness: a Delete of a row without a file answered success
C7_Witness ==
  /\ Done("delete") /\ loc[1].path # <<>> /\ ~loc[1].found
  /\ resp[1].status = 200 /\ ~HasRow(rows, loc[1].id)

\* the exceptions of a blob or directory that has gone since it was looked at
GoneFaults ==
  {"FileNotFoundError: unlink", "FileNotFoundError: iterdir", "FileNotFoundError: rmdir"}

\* C8 (as claimed): of two Deletes of the same document in flight together,
\* neither raises because the blob or its directory is already gone.
C8_ConcurrentDelete ==
  \A p, q \in Procs :
    p # q /\ loc[p].op = "delete" /\ loc[q].op = "delete"
      /\ loc[p].id = loc[q].id /\ loc[p].path # <<>> /\ loc[q].path # <<>>
    => loc[p].exc \notin GoneFaults

\* C9 (as claimed): a List with a status filter returns only rows of that
\* status, and a List without one returns the rows from offset skip, at most
\* limit of them.
C9_ListFilter ==
  Done("list") =>
    /\ resp[1].status = 200
    /\ loc[1].filter # <<>> =>
         \A i \in 1..Len(resp[1].docs) : resp[1].docs[i].status = loc[1].filter[1]
    /\ loc[1].filter = <<>> =>
         /\ Len(resp[1].docs) <= loc[1].limit
         /\ \A i \in 1..Len(resp[1].docs) : resp[1].docs[i] = rows[loc[1].skip + i]
         /\ Len(resp[1].docs) < loc[1].limit => Len(rows) <= loc[1].skip + Len(resp[1].docs)

\* the extension each filename and URL of the inputs has, '.txt' standing for none
HintExt(hint) ==
  CASE hint = <<"r", ".", "p">> -> <<".", "p">>
    [] hint = <<"h", "/", "f", ".", "p">> -> <<".", "p">>
    [] OTHER -> <<".", "t", "x", "t">>

\* C10: the path allocated by Create (from the filename) and by
\* download_and_save (from the URL) is <base>/<first two characters of
\* id>/<id><ext>, where ext is the hint's extension or ".txt", starts with a
\* dot and holds no separator; and from the allocation until the blob is
\* written, and wherever the blob is on disk, the shard directory exists.
C10_PathForm ==
  loc[1].op \in {"create", "fetch"} /\ loc[1].path # <<>> =>
    LET id   == loc[1].id
        path == loc[1].path
        ext  == SubSeq(path, Len(Base) + Len(id) + 5, Len(path))
    IN  /\ Len(id) >= 2
        /\ path = Base \o <<"/">> \o <<id[1], id[2]>> \o <<"/">> \o id \o ext
        /\ ext # <<>> /\ ext[1] = "."
        /\ \A k \in 1..Len(ext) : ext[k] # "/"
        /\ ext = HintExt(loc[1].filename)
        /\ pc[1] \in {"c_open", "c_copy", "h_get", "h_open", "h_write"} =>
             Base \o <<"/">> \o <<id[1], id[2]>> \in dirs
        /\ path \in DOMAIN files => Base \o <<"/">> \o <<id[1], id[2]>> \in dirs

\* C10 witness: a Create given "x.y/r" has opened its blob under ".txt" in the
\* shard directory of its id
C10_Witness ==
  /\ pc[1] = "c_copy" /\ loc[1].filename = <<"x", ".", "y", "/", "r">>
  /\ loc[1].id = <<"a", "b", "2">>
  /\ loc[1].path = <<"R", "/", "a", "b", "/", "a", "b", "2", ".", "t", "x", "t">>
  /\ loc[1].path \in DOMAIN files /\ <<"R", "/", "a", "b">> \in dirs

\* the shard directory of an id, spelled out
ShardDir(id) == Base \o <<"/">> \o <<id[1], id[2]>>

\* C11: every step of a Delete leaves all files but the document's own blob
\* as they were and creates none, and removes no directory but the blob's
\* shard directory, and that one only when no file is in it (never the base
\* directory); and a Delete that unlinked the blob and was not refused the
\* rmdir ends with the shard directory removed exactly if it holds no entry.
C11_DeleteFrame ==
  [][ loc'[1].op = "delete" =>
        /\ DOMAIN files' \subseteq DOMAIN files
        /\ \A f \in DOMAIN files :
             f # loc'[1].path => f \in DOMAIN files' /\ files'[f] = files[f]
        /\ dirs' \subseteq dirs
        /\ \A d \in dirs \ dirs' :
             /\ d = ShardDir(loc'[1].id) /\ d # Base
             /\ \A f \in DOMAIN files : Parent(f) # d
        /\ pc'[1] = "done" /\ loc'[1].found
             /\ loc'[1].exc \notin {"OSError: unlink", "OSError: rmdir"} =>
             /\ loc'[1].path \notin DOMAIN files'
             /\ ShardDir(loc'[1].id) \in dirs' <=>
                  (\E f \in DOMAIN files' : Parent(f) = ShardDir(loc'[1].id))
    ]_vars

\* C11 witness: a Delete removed its blob and pruned the emptied shard
\* directory while the base directory and another shard's blob are still there
C11_Witness ==
  /\ Done("delete") /\ resp[1].status = 200 /\ loc[1].found
  /\ ShardDir(loc[1].id) \notin dirs /\ Base \in dirs
  /\ \E f \in DOMAIN files : Parent(f) \in dirs /\ Parent(f) # ShardDir(loc[1].id)

\* the exceptions a Create or a Delete meets only when the shard directory was
\* changed under it: open() in a directory that was removed after the mkdir,
\* rmdir of a directory that was filled after the iterdir
ShardRaceFaults == {"FileNotFoundError: open", "OSError: directory not empty"}

\* C12 (as claimed): a Create of one document and a Delete of another document
\* of the same shard, in flight together, do not make each other fail.
C12_Independent ==
  \A p, q \in Procs :
    /\ loc[p].op = "create" /\ loc[q].op = "delete" /\ loc[q].path # <<>>
    /\ loc[p].id # loc[q].id /\ ShardDir(loc[p].id) = ShardDir(loc[q].id)
    => loc[p].exc \notin ShardRaceFaults /\ loc[q].exc \notin ShardRaceFaults

\* Create's statements before db.commit() has inserted the row
BeforeInsert == {"c_mkdir", "c_open", "c_copy", "c_commit"}

\* a step of a Create whose row is already in the table changes neither the
\* table nor the disk
NothingAfterInsert ==
  loc[1].op = "create" /\ loc'[1].op = "create" /\ HasRow(rows, loc[1].id) =>
    rows' = rows /\ files' = files /\ dirs' = dirs

\* the step that inserts the row finds the blob written to its end
InsertAfterBlob ==
  loc[1].op = "create" /\ ~HasRow(rows, loc[1].id) /\ HasRow(rows', loc[1].id) =>
    /\ pc[1] = "c_commit"
    /\ loc[1].path \in DOMAIN files
    /\ files[loc[1].path] = loc[1].content

\* a Create that has not reached the insert, or failed before it, has no row
NoRowBeforeInsert ==
  loc'[1].op = "create" =>
    /\ pc'[1] \in BeforeInsert => ~HasRow(rows', loc'[1].id)
    /\ loc'[1].exc \in BlobWriteFaults \cup {"OSError: mkdir", "SQLAlchemyError: commit"} =>
         ~HasRow(rows', loc'[1].id)

\* C13 (as claimed): the row insert is the last step of Create that changes
\* state; the row is inserted only once the blob is written to its end; and a
\* Create abandoned or failed before the insert leaves no row.
C13_InsertLast ==
  [][NothingAfterInsert /\ InsertAfterBlob /\ NoRowBeforeInsert]_vars

====
